---- MODULE Spec2Model ----
(***************************************************************************)
(* Model of python-scripts/csAnalyze.py: the scan index, the time-bucketed *)
(* frequency and average-RSSI aggregates, the weighted-centroid path and   *)
(* the timestamp regrouper.                                                *)
(*                                                                         *)
(* Numbers.  Python floats are modelled as exact rationals [n, d] with     *)
(* d > 0 in lowest terms; NaN is the record with d = 0.  Timestamps are    *)
(* integers counting 1/TimeDen seconds, so that fractional and negative    *)
(* timestamps exist and int() has something to truncate.  Python lists are *)
(* 0-based, TLA+ sequences 1-based: list index i is sequence index i + 1.  *)
(***************************************************************************)
EXTENDS Integers, Sequences, FiniteSets, TLC

VARIABLES data, windowSize, stepSize, nodeLocations, datasets, kwargs,
          called, scansOut, freqOut, avgOut, pathOut, timedOut

vars == <<data, windowSize, stepSize, nodeLocations, datasets, kwargs,
          called, scansOut, freqOut, avgOut, pathOut, timedOut>>

(***************************************************************************)
(* Bounds of the model.                                                    *)
(***************************************************************************)
TimeDen == 2
MaxScansIndex == 3

(***************************************************************************)
(* Exact arithmetic standing for float arithmetic.                         *)
(***************************************************************************)
Abs(i) == IF i < 0 THEN -i ELSE i

RECURSIVE GCD(_, _)
GCD(a, b) == IF b = 0 THEN a ELSE GCD(b, a % b)

Norm(n, d) ==
    LET s == IF d < 0 THEN -1 ELSE 1
        g == GCD(Abs(n), Abs(d))
    IN  [n |-> (s * n) \div g, d |-> (s * d) \div g]

Float(i) == [n |-> i, d |-> 1]
NaN == [n |-> 0, d |-> 0]
IsNaN(a) == a.d = 0
FAdd(a, b) == Norm(a.n * b.d + b.n * a.d, a.d * b.d)
FMul(a, b) == Norm(a.n * b.n, a.d * b.d)
FDiv(a, b) == Norm(a.n * b.d, a.d * b.n)
FLess(a, b) == a.n * b.d < b.n * a.d
FLeq(a, b) == a.n * b.d <= b.n * a.d

(***************************************************************************)
(* Input domains.                                                          *)
(***************************************************************************)
SeqUpTo(S, k) == UNION {[1..m -> S] : m \in 0..k}

Project(arrivals, node) ==
    LET F[i \in 0..Len(arrivals)] ==
            IF i = 0 THEN <<>>
            ELSE IF arrivals[i][1] = node THEN Append(F[i-1], arrivals[i][2])
                 ELSE F[i-1]
    IN  F[Len(arrivals)]

\* every assignment of at most max scan records, in all, to the nodes' lists
ScanTables(nodes, records, max) ==
    {[n \in nodes |-> Project(a, n)] : a \in SeqUpTo(nodes \X records, max)}

Perms(S) ==
    {p \in [1..Cardinality(S) -> S] : \A i, j \in DOMAIN p : i # j => p[i] # p[j]}

Dataset(scans, order, start, end) ==
    [scans |-> scans, nodeOrder |-> order,
     startTimestamp |-> start, endTimestamp |-> end]

NoData == Dataset(<<>>, <<>>, 0, 0)

(***************************************************************************)
(* getScansPerDevicePerNode                                                *)
(***************************************************************************)
\* IndexScan with the minimum tested only when the maximum did not move
IndexScanElif(acc, nodeAddr, scan) ==
    LET devAddr == scan.address
        rssi == scan.rssi
        entry == [time |-> scan.time, rssi |-> rssi]
        withDev == IF devAddr \notin DOMAIN acc.scansPerDev
                   THEN acc.scansPerDev @@ (devAddr :> <<>>)
                   ELSE acc.scansPerDev
        withEntry == IF nodeAddr \notin DOMAIN withDev[devAddr]
                     THEN [withDev EXCEPT ![devAddr] = @ @@ (nodeAddr :> <<entry>>)]
                     ELSE [withDev EXCEPT ![devAddr][nodeAddr] = Append(@, entry)]
    IN  [scansPerDev |-> withEntry,
         maxRssi |-> IF rssi > acc.maxRssi THEN rssi ELSE acc.maxRssi,
         minRssi |-> IF rssi > acc.maxRssi THEN acc.minRssi
                     ELSE IF rssi < acc.minRssi THEN rssi ELSE acc.minRssi]

\* IndexScan with the list of a known node replaced instead of extended
IndexScanOverwrite(acc, nodeAddr, scan) ==
    LET devAddr == scan.address
        rssi == scan.rssi
        entry == [time |-> scan.time, rssi |-> rssi]
        withDev == IF devAddr \notin DOMAIN acc.scansPerDev
                   THEN acc.scansPerDev @@ (devAddr :> <<>>)
                   ELSE acc.scansPerDev
        withEntry == IF nodeAddr \notin DOMAIN withDev[devAddr]
                     THEN [withDev EXCEPT ![devAddr] = @ @@ (nodeAddr :> <<entry>>)]
                     ELSE [withDev EXCEPT ![devAddr][nodeAddr] = <<entry>>]
    IN  [scansPerDev |-> withEntry,
         maxRssi |-> IF rssi > acc.maxRssi THEN rssi ELSE acc.maxRssi,
         minRssi |-> IF rssi < acc.minRssi THEN rssi ELSE acc.minRssi]

\* the body of the inner loop, for one scan of node nodeAddr
IndexScan(acc, nodeAddr, scan) ==
    LET devAddr == scan.address
        rssi == scan.rssi
        entry == [time |-> scan.time, rssi |-> rssi]
        withDev == IF devAddr \notin DOMAIN acc.scansPerDev
                   THEN acc.scansPerDev @@ (devAddr :> <<>>)
                   ELSE acc.scansPerDev
        withEntry == IF nodeAddr \notin DOMAIN withDev[devAddr]
                     THEN [withDev EXCEPT ![devAddr] = @ @@ (nodeAddr :> <<entry>>)]
                     ELSE [withDev EXCEPT ![devAddr][nodeAddr] = Append(@, entry)]
    IN  [scansPerDev |-> withEntry,
         maxRssi |-> IF rssi > acc.maxRssi THEN rssi ELSE acc.maxRssi,
         minRssi |-> IF rssi < acc.minRssi THEN rssi ELSE acc.minRssi]

RECURSIVE IndexNode(_, _, _)
IndexNode(acc, nodeAddr, list) ==
    IF list = <<>> THEN acc
    ELSE IndexNode(IndexScan(acc, nodeAddr, Head(list)), nodeAddr, Tail(list))

RECURSIVE IndexNodes(_, _, _)
IndexNodes(acc, scans, order) ==
    IF order = <<>> THEN acc
    ELSE IndexNodes(IndexNode(acc, Head(order), scans[Head(order)]),
                    scans, Tail(order))

getScansPerDevicePerNode(d) ==
    IndexNodes([scansPerDev |-> <<>>, minRssi |-> 127, maxRssi |-> -127],
               d.scans, d.nodeOrder)

NoScansOut == [scansPerDev |-> <<>>, minRssi |-> 0, maxRssi |-> 0]

(***************************************************************************)
(* Bucket start times: range(int(start), int(end) - windowSize + 1, step)  *)
(***************************************************************************)
Sec(s) == s * TimeDen

\* int() of a float timestamp: truncation toward zero
PyInt(t) == IF t >= 0 THEN t \div TimeDen ELSE -((-t) \div TimeDen)

\* range(a, b, s) for s > 0, as a list
PyRange(a, b, s) ==
    LET len == IF b <= a THEN 0 ELSE (b - a + s - 1) \div s
    IN  [i \in 1..len |-> a + (i - 1) * s]

FreqStartTimes(d, w, s) ==
    PyRange(PyInt(d.startTimestamp), PyInt(d.endTimestamp) - w + 1, s)

\* AvgStartTimes with the range ending at int(end) - windowSize
AvgStartTimesShort(d, w, s) ==
    PyRange(PyInt(d.startTimestamp), PyInt(d.endTimestamp) - w, s)

AvgStartTimes(d, w, s) ==
    PyRange(PyInt(d.startTimestamp), PyInt(d.endTimestamp) - w + 1, s)

(***************************************************************************)
(* getFrequencyPerDevicePerNode                                            *)
(***************************************************************************)
FastNodes == {"E8:00:93:4E:7B:D9", "F5:A7:4B:49:8C:7D", "FE:04:85:F9:8F:E9"}

\* FreqInWindow with the closing boundary included
FreqInWindowClosed(startTime, timestamp, w) ==
    /\ Sec(startTime) <= timestamp
    /\ timestamp <= Sec(startTime + w)

\* startTimes[tInd] <= timestamp < startTimes[tInd] + windowSize
FreqInWindow(startTime, timestamp, w) ==
    /\ Sec(startTime) <= timestamp
    /\ timestamp < Sec(startTime + w)

RECURSIVE FreqCount(_, _, _, _)
FreqCount(count, list, startTime, w) ==
    IF list = <<>> THEN count
    ELSE FreqCount(IF FreqInWindow(startTime, Head(list).time, w)
                   THEN count + 1 ELSE count,
                   Tail(list), startTime, w)

\* the value appended for one node and one tInd
FreqEntry(nodeAddr, list, startTime, w) ==
    LET count == Float(FreqCount(0, list, startTime, w))
    IN  IF nodeAddr \in FastNodes THEN FDiv(count, Float(6)) ELSE count

\* tInd runs over range(1, len(startTimes)): list index k - 1 of a node's
\* sequence is written at tInd = k, whose start time is startTimes[k + 1] here
FreqFirstTInd == 1

getFrequencyPerDevicePerNode(d, w, s) ==
    LET scansPerDev == getScansPerDevicePerNode(d).scansPerDev
        startTimes == FreqStartTimes(d, w, s)
        numScans ==
            [devAddr \in DOMAIN scansPerDev |->
                IF Len(startTimes) > FreqFirstTInd
                THEN [nodeAddr \in DOMAIN scansPerDev[devAddr] |->
                        [k \in 1..(Len(startTimes) - FreqFirstTInd) |->
                            FreqEntry(nodeAddr, scansPerDev[devAddr][nodeAddr],
                                      startTimes[k + FreqFirstTInd], w)]]
                ELSE <<>>]
    IN  [numScansPerDev |-> numScans, startTimes |-> startTimes]

(***************************************************************************)
(* getAverageRssiPerDevicePerNode                                          *)
(***************************************************************************)
\* AvgInWindow with the closing boundary included
AvgInWindowClosed(startTime, timestamp, w) ==
    /\ Sec(startTime) <= timestamp
    /\ timestamp <= Sec(startTime + w)

AvgInWindow(startTime, timestamp, w) ==
    /\ Sec(startTime) <= timestamp
    /\ timestamp < Sec(startTime + w)

RECURSIVE AvgLoop(_, _, _, _, _)
AvgLoop(rssiSum, numScans, list, startTime, w) ==
    IF list = <<>> THEN [rssiSum |-> rssiSum, numScans |-> numScans]
    ELSE IF AvgInWindow(startTime, Head(list).time, w)
         THEN AvgLoop(rssiSum + Head(list).rssi, numScans + 1,
                      Tail(list), startTime, w)
         ELSE AvgLoop(rssiSum, numScans, Tail(list), startTime, w)

\* the default -105.0, overwritten by the mean when a scan is in the window
AvgEntry(list, startTime, w) ==
    LET acc == AvgLoop(0, 0, list, startTime, w)
    IN  IF acc.numScans > 0
        THEN FDiv(Float(acc.rssiSum), Float(acc.numScans))
        ELSE Float(-105)

getAverageRssiPerDevicePerNode(d, w, s) ==
    LET scansPerDev == getScansPerDevicePerNode(d).scansPerDev
        startTimes == AvgStartTimes(d, w, s)
        avgRssi ==
            [devAddr \in DOMAIN scansPerDev |->
                [nodeAddr \in DOMAIN scansPerDev[devAddr] |->
                    [k \in 1..Len(startTimes) |->
                        AvgEntry(scansPerDev[devAddr][nodeAddr],
                                 startTimes[k], w)]]]
    IN  [avgRssiPerDev |-> avgRssi, startTimes |-> startTimes]

(***************************************************************************)
(* getPathPerDevice                                                        *)
(***************************************************************************)
RECURSIVE FSum(_, _)
FSum(f, S) ==
    IF S = {} THEN Float(0)
    ELSE LET e == CHOOSE x \in S : TRUE
         IN  FAdd(f[e], FSum(f, S \ {e}))

\* weights[nodeAddr] = (avgRssi[dev][nodeAddr][tInd] + 105.0)**2, for the
\* nodes of numScans[dev]
PathWeights(numScans, avgRssi, dev, k) ==
    [nodeAddr \in DOMAIN numScans[dev] |->
        LET a == FAdd(avgRssi[dev][nodeAddr][k], Float(105))
        IN  FMul(a, a)]

\* one tInd of one device: NaN when weightSum < 1.0, else the centroid, whose
\* lookup of nodeLocations[nodeAddr] raises KeyError for an unknown node
PathPoint(weights, locations) ==
    LET weightSum == FSum(weights, DOMAIN weights)
    IN  IF FLess(weightSum, Float(1))
        THEN [raised |-> "", x |-> NaN, y |-> NaN]
        ELSE IF \E nodeAddr \in DOMAIN weights : nodeAddr \notin DOMAIN locations
        THEN [raised |-> "KeyError", x |-> Float(0), y |-> Float(0)]
        ELSE [raised |-> "",
              x |-> FSum([nodeAddr \in DOMAIN weights |->
                            FMul(FDiv(weights[nodeAddr], weightSum),
                                 Float(locations[nodeAddr].x))],
                         DOMAIN weights),
              y |-> FSum([nodeAddr \in DOMAIN weights |->
                            FMul(FDiv(weights[nodeAddr], weightSum),
                                 Float(locations[nodeAddr].y))],
                         DOMAIN weights)]

getPathPerDevice(d, w, s, locations) ==
    LET data2 == getFrequencyPerDevicePerNode(d, w, s)
        numScans == data2.numScansPerDev
        startTimes == data2.startTimes
        avgRssi == getAverageRssiPerDevicePerNode(d, w, s).avgRssiPerDev
        points == [dev \in DOMAIN numScans |->
                    [k \in 1..Len(startTimes) |->
                        PathPoint(PathWeights(numScans, avgRssi, dev, k),
                                  locations)]]
    IN  IF \E dev \in DOMAIN points : \E k \in DOMAIN points[dev] :
               points[dev][k].raised # ""
        THEN [raised |-> "KeyError", pathPerDevice |-> <<>>, startTimes |-> <<>>]
        ELSE [raised |-> "",
              pathPerDevice |->
                [dev \in DOMAIN points |->
                    [x |-> [k \in DOMAIN points[dev] |-> points[dev][k].x],
                     y |-> [k \in DOMAIN points[dev] |-> points[dev][k].y]]],
              startTimes |-> startTimes]

(***************************************************************************)
(* getTimedMeasurements                                                    *)
(***************************************************************************)
\* round(time, 1), in tenths of a second, halves rounded away from zero
Round1(t) ==
    LET q == (2 * 10 * Abs(t) + TimeDen) \div (2 * TimeDen)
    IN  IF t < 0 THEN -q ELSE q

\* the body of the innermost loop, for one entry of node
TimedEntry(output, node, entry, kw) ==
    IF "start" \in DOMAIN kw /\ entry.time < kw["start"] THEN output
    ELSE IF "end" \in DOMAIN kw /\ entry.time > kw["end"] THEN output
    ELSE
    LET timeStamp == Round1(entry.time)
        device == entry.address
        d0 == output.data
        d1 == IF timeStamp \notin DOMAIN d0 THEN d0 @@ (timeStamp :> <<>>) ELSE d0
        d2 == IF node \notin DOMAIN d1[timeStamp]
              THEN [d1 EXCEPT ![timeStamp] = @ @@ (node :> <<>>)] ELSE d1
        d3 == IF device \notin DOMAIN d2[timeStamp][node]
              THEN [d2 EXCEPT ![timeStamp][node] = @ @@ (device :> <<>>)] ELSE d2
    IN  [data |-> [d3 EXCEPT ![timeStamp][node][device] = Append(@, entry.rssi)],
         startTimestamp |->
            IF entry.time < output.startTimestamp \/ output.startTimestamp = Sec(-1)
            THEN entry.time ELSE output.startTimestamp,
         endTimestamp |->
            IF entry.time > output.endTimestamp \/ output.endTimestamp = Sec(-1)
            THEN entry.time ELSE output.endTimestamp]

RECURSIVE TimedNode(_, _, _, _)
TimedNode(output, node, list, kw) ==
    IF list = <<>> THEN output
    ELSE TimedNode(TimedEntry(output, node, Head(list), kw), node, Tail(list), kw)

RECURSIVE TimedNodes(_, _, _, _)
TimedNodes(output, scans, order, kw) ==
    IF order = <<>> THEN output
    ELSE TimedNodes(TimedNode(output, Head(order), scans[Head(order)], kw),
                    scans, Tail(order), kw)

RECURSIVE TimedDatasets(_, _, _)
TimedDatasets(output, ds, kw) ==
    IF ds = <<>> THEN output
    ELSE TimedDatasets(TimedNodes(output, Head(ds).scans, Head(ds).nodeOrder, kw),
                       Tail(ds), kw)

getTimedMeasurements(ds, kw) ==
    TimedDatasets([data |-> <<>>, startTimestamp |-> Sec(-1),
                   endTimestamp |-> Sec(-1)], ds, kw)

(***************************************************************************)
(* Actions: one per function of the module, applied to the inputs.         *)
(***************************************************************************)
CallGetScansPerDevicePerNode ==
    /\ "getScansPerDevicePerNode" \notin called
    /\ scansOut' = getScansPerDevicePerNode(data)
    /\ called' = called \cup {"getScansPerDevicePerNode"}
    /\ UNCHANGED <<data, windowSize, stepSize, nodeLocations, datasets, kwargs,
                   freqOut, avgOut, pathOut, timedOut>>

CallGetFrequencyPerDevicePerNode ==
    /\ "getFrequencyPerDevicePerNode" \notin called
    /\ freqOut' = getFrequencyPerDevicePerNode(data, windowSize, stepSize)
    /\ called' = called \cup {"getFrequencyPerDevicePerNode"}
    /\ UNCHANGED <<data, windowSize, stepSize, nodeLocations, datasets, kwargs,
                   scansOut, avgOut, pathOut, timedOut>>

CallGetAverageRssiPerDevicePerNode ==
    /\ "getAverageRssiPerDevicePerNode" \notin called
    /\ avgOut' = getAverageRssiPerDevicePerNode(data, windowSize, stepSize)
    /\ called' = called \cup {"getAverageRssiPerDevicePerNode"}
    /\ UNCHANGED <<data, windowSize, stepSize, nodeLocations, datasets, kwargs,
                   scansOut, freqOut, pathOut, timedOut>>

CallGetPathPerDevice ==
    /\ "getPathPerDevice" \notin called
    /\ pathOut' = getPathPerDevice(data, windowSize, stepSize, nodeLocations)
    /\ called' = called \cup {"getPathPerDevice"}
    /\ UNCHANGED <<data, windowSize, stepSize, nodeLocations, datasets, kwargs,
                   scansOut, freqOut, avgOut, timedOut>>

CallGetTimedMeasurements ==
    /\ "getTimedMeasurements" \notin called
    /\ timedOut' = getTimedMeasurements(datasets, kwargs)
    /\ called' = called \cup {"getTimedMeasurements"}
    /\ UNCHANGED <<data, windowSize, stepSize, nodeLocations, datasets, kwargs,
                   scansOut, freqOut, avgOut, pathOut>>

(***************************************************************************)
(* Specification of the scan index.                                        *)
(***************************************************************************)
IndexNodeSet == {"A", "B"}
IndexDevices == {"D1", "D2"}
IndexTimes == {1, 2}
IndexRssis == {-127, -60, 127}
IndexRecords == [address : IndexDevices, time : IndexTimes, rssi : IndexRssis]

InitCommon ==
    /\ called = {}
    /\ scansOut = NoScansOut
    /\ freqOut = <<>>
    /\ avgOut = <<>>
    /\ pathOut = <<>>
    /\ timedOut = <<>>

InitIndex ==
    /\ \E s \in ScanTables(IndexNodeSet, IndexRecords, MaxScansIndex),
          o \in Perms(IndexNodeSet) :
            data = Dataset(s, o, 0, 2 * TimeDen)
    /\ windowSize = 1
    /\ stepSize = 1
    /\ nodeLocations = <<>>
    /\ datasets = <<>>
    /\ kwargs = <<>>
    /\ InitCommon

NextIndex == CallGetScansPerDevicePerNode

SpecIndex == InitIndex /\ [][NextIndex]_vars

(***************************************************************************)
(* Specification of the two aggregates.                                    *)
(***************************************************************************)
MaxScansAgg == 3
AggNodes == {"A", "E8:00:93:4E:7B:D9"}
AggDevices == {"D1", "D2"}
AggTimes == {Sec(2) - 1, Sec(2)}
AggRssis == {-60, -51}
AggRecords == [address : AggDevices, time : AggTimes, rssi : AggRssis]
AggStarts == {1, Sec(1) + 1}
AggEnds == {Sec(2), Sec(4)}
AggWindows == {1, 2}
AggSteps == {1, 2}

InitAgg ==
    /\ \E s \in ScanTables(AggNodes, AggRecords, MaxScansAgg),
          b \in AggStarts, e \in AggEnds :
            data = Dataset(s, <<"A", "E8:00:93:4E:7B:D9">>, b, e)
    /\ windowSize \in AggWindows
    /\ stepSize \in AggSteps
    /\ nodeLocations = <<>>
    /\ datasets = <<>>
    /\ kwargs = <<>>
    /\ InitCommon

NextAgg ==
    \/ CallGetFrequencyPerDevicePerNode
    \/ CallGetAverageRssiPerDevicePerNode

SpecAgg == InitAgg /\ [][NextAgg]_vars

(***************************************************************************)
(* Specification of the path: the nodes A(0,0) and B(10,0), of which the   *)
(* location table may miss any.                                            *)
(***************************************************************************)
MaxScansPath == 3
PathNodes == {"A", "B"}
PathDevices == {"D1", "D2"}
PathTimes == {Sec(10), Sec(30)}
PathRssis == {-104, -60}
PathRecords == [address : PathDevices, time : PathTimes, rssi : PathRssis]
PathEnds == {Sec(20), Sec(40)}
PathWindows == {20, 50}
AllLocations == ("A" :> [x |-> 0, y |-> 0]) @@ ("B" :> [x |-> 10, y |-> 0])
LocationTables == {[n \in S |-> AllLocations[n]] : S \in SUBSET PathNodes}

InitPath ==
    /\ \E s \in ScanTables(PathNodes, PathRecords, MaxScansPath),
          e \in PathEnds :
            data = Dataset(s, <<"A", "B">>, 0, e)
    /\ windowSize \in PathWindows
    /\ stepSize = 20
    /\ nodeLocations \in LocationTables
    /\ datasets = <<>>
    /\ kwargs = <<>>
    /\ InitCommon

NextPath == CallGetPathPerDevice

SpecPath == InitPath /\ [][NextPath]_vars

(***************************************************************************)
(* Specification of the bucket start times: fractional and negative        *)
(* timestamps, few scans.                                                  *)
(***************************************************************************)
MaxScansBuckets == 1
BucketTimestamps == {Sec(-2) + 1, Sec(-1), -1, 0, 1, Sec(1), Sec(2) + 1, Sec(3)}
BucketWindows == {1, 2, 3}
BucketSteps == {1, 2}
BucketRecords == [address : {"D1"}, time : {0}, rssi : {-60}]

InitBuckets ==
    /\ \E s \in ScanTables(PathNodes, BucketRecords, MaxScansBuckets),
          b \in BucketTimestamps, e \in BucketTimestamps :
            /\ b <= e
            /\ data = Dataset(s, <<"A", "B">>, b, e)
    /\ windowSize \in BucketWindows
    /\ stepSize \in BucketSteps
    /\ nodeLocations \in {AllLocations, <<>>}
    /\ datasets = <<>>
    /\ kwargs = <<>>
    /\ InitCommon

NextBuckets ==
    \/ CallGetFrequencyPerDevicePerNode
    \/ CallGetAverageRssiPerDevicePerNode
    \/ CallGetPathPerDevice

SpecBuckets == InitBuckets /\ [][NextBuckets]_vars

(***************************************************************************)
(* Specification of the regrouper: one or two datasets, optional filters.  *)
(***************************************************************************)
MaxScansTimed == 2
MaxDatasets == 2
TimedTimes == {Sec(-2), Sec(-1), 1, Sec(3)}
TimedRecords == [address : {"D1"}, time : TimedTimes, rssi : {-60}]
TimedKwargs ==
    {<<>>, "start" :> Sec(-1), "end" :> 1,
     ("start" :> Sec(-1)) @@ ("end" :> 1)}

InitTimed ==
    /\ data = NoData
    /\ windowSize = 1
    /\ stepSize = 1
    /\ nodeLocations = <<>>
    /\ \E m \in 1..MaxDatasets :
       \E t \in ScanTables((1..m) \X PathNodes, TimedRecords, MaxScansTimed) :
          \E o \in [1..m -> Perms(PathNodes)] :
                datasets = [k \in 1..m |->
                    Dataset([n \in PathNodes |-> t[<<k, n>>]], o[k], 0, 0)]
    /\ kwargs \in TimedKwargs
    /\ InitCommon

NextTimed == CallGetTimedMeasurements

SpecTimed == InitTimed /\ [][NextTimed]_vars

(***************************************************************************)
(* Helpers of the properties: what the dataset holds, stated without the   *)
(* index.                                                                  *)
(***************************************************************************)
Done(f) == f \in called

AllRssi(d) ==
    UNION {{d.scans[n][i].rssi : i \in DOMAIN d.scans[n]} : n \in DOMAIN d.scans}
AllAddresses(d) ==
    UNION {{d.scans[n][i].address : i \in DOMAIN d.scans[n]} : n \in DOMAIN d.scans}

\* node n's scans of device dev, in the node's order, as {time, rssi}
ScansOf(d, dev, n) ==
    LET sub == SelectSeq(d.scans[n], LAMBDA r : r.address = dev)
    IN  [i \in 1..Len(sub) |-> [time |-> sub[i].time, rssi |-> sub[i].rssi]]

\* C8: minRssi <= every rssi <= maxRssi, both the rssi of some record, when
\* the dataset has a scan; minRssi = 127 and maxRssi = -127 when it has none.
C8_MinMaxRssi ==
    Done("getScansPerDevicePerNode") =>
        IF AllRssi(data) = {}
        THEN scansOut.minRssi = 127 /\ scansOut.maxRssi = -127
        ELSE /\ scansOut.minRssi \in AllRssi(data)
             /\ scansOut.maxRssi \in AllRssi(data)
             /\ \A r \in AllRssi(data) :
                    scansOut.minRssi <= r /\ r <= scansOut.maxRssi

C8_Witness ==
    /\ Done("getScansPerDevicePerNode")
    /\ Cardinality(AllRssi(data)) >= 2
    /\ scansOut.minRssi < scansOut.maxRssi

\* C9: scansPerDev[d][n] is exactly node n's scans of d in the source order;
\* the key (d, n) exists iff node n has a scan of d.
C9_IndexExact ==
    Done("getScansPerDevicePerNode") =>
        /\ DOMAIN scansOut.scansPerDev = AllAddresses(data)
        /\ \A dev \in AllAddresses(data) :
              /\ DOMAIN scansOut.scansPerDev[dev] =
                    {n \in DOMAIN data.scans : ScansOf(data, dev, n) # <<>>}
              /\ \A n \in DOMAIN scansOut.scansPerDev[dev] :
                    scansOut.scansPerDev[dev][n] = ScansOf(data, dev, n)

C9_Witness ==
    /\ Done("getScansPerDevicePerNode")
    /\ \E dev \in DOMAIN scansOut.scansPerDev :
          /\ Cardinality(DOMAIN scansOut.scansPerDev[dev]) = 2
          /\ \E n \in DOMAIN scansOut.scansPerDev[dev] :
                /\ Len(scansOut.scansPerDev[dev][n]) = 2
                /\ scansOut.scansPerDev[dev][n][1] # scansOut.scansPerDev[dev][n][2]

(***************************************************************************)
(* Properties of the aggregates.                                           *)
(***************************************************************************)
NodesSeeing(d, dev) == {n \in DOMAIN d.scans : ScansOf(d, dev, n) # <<>>}

\* the positions of list whose time t has startTime <= t < startTime + w
Within(list, startTime, w) ==
    {j \in DOMAIN list : /\ Sec(startTime) <= list[j].time
                         /\ list[j].time < Sec(startTime + w)}

RECURSIVE SumRssi(_, _)
SumRssi(list, J) ==
    IF J = {} THEN 0
    ELSE LET j == CHOOSE x \in J : TRUE
         IN  list[j].rssi + SumRssi(list, J \ {j})

\* a is the arithmetic mean of the rssi at positions J of list
IsMean(a, list, J) ==
    /\ a.d > 0
    /\ a.n * Cardinality(J) = SumRssi(list, J) * a.d

\* a is the number of positions J, divided by 6 for a fast-scanning node
IsCount(a, n, J) ==
    /\ a.d > 0
    /\ IF n \in FastNodes THEN 6 * a.n = Cardinality(J) * a.d
       ELSE a.n = Cardinality(J) * a.d

\* C2: every (device, node) pair of the index has an average-RSSI sequence as
\* long as startTimes, whose entry i is the mean rssi of the pair's scans in
\* window i, or -105.0 when the window holds none.
C2_AverageRssi ==
    Done("getAverageRssiPerDevicePerNode") =>
        LET st == avgOut.startTimes
            avg == avgOut.avgRssiPerDev
        IN  /\ DOMAIN avg = AllAddresses(data)
            /\ \A dev \in AllAddresses(data) :
                  /\ DOMAIN avg[dev] = NodesSeeing(data, dev)
                  /\ \A n \in NodesSeeing(data, dev) :
                        /\ Len(avg[dev][n]) = Len(st)
                        /\ \A i \in 1..Len(st) :
                              LET list == ScansOf(data, dev, n)
                                  J == Within(list, st[i], windowSize)
                              IN  IF J = {} THEN avg[dev][n][i] = Float(-105)
                                  ELSE IsMean(avg[dev][n][i], list, J)

\* two scans of one pair in a window, a third outside it, and an empty window
C2_Witness ==
    /\ Done("getAverageRssiPerDevicePerNode")
    /\ \E dev \in DOMAIN avgOut.avgRssiPerDev :
       \E n \in DOMAIN avgOut.avgRssiPerDev[dev] :
          LET list == ScansOf(data, dev, n)
              st == avgOut.startTimes
          IN  /\ Len(list) = 3
              /\ \E i, k \in 1..Len(st) :
                    /\ Cardinality(Within(list, st[i], windowSize)) = 2
                    /\ avgOut.avgRssiPerDev[dev][n][i].d = 2
                    /\ Within(list, st[k], windowSize) = {}
                    /\ avgOut.avgRssiPerDev[dev][n][k] = Float(-105)

\* C3 as claimed: every pair has a frequency sequence as long as startTimes,
\* starting at bucket 0, whose entry i is the count of window i (over 6.0 for
\* a fast-scanning node).
C3_FrequencyFromBucketZero ==
    Done("getFrequencyPerDevicePerNode") =>
        LET st == freqOut.startTimes
            num == freqOut.numScansPerDev
        IN  /\ DOMAIN num = AllAddresses(data)
            /\ \A dev \in AllAddresses(data) :
                  /\ DOMAIN num[dev] = NodesSeeing(data, dev)
                  /\ \A n \in NodesSeeing(data, dev) :
                        /\ Len(num[dev][n]) = Len(st)
                        /\ \A i \in 1..Len(st) :
                              IsCount(num[dev][n][i], n,
                                  Within(ScansOf(data, dev, n), st[i], windowSize))

\* The scans of a pair at the closing boundary of bucket i, the pair's list
\* without them, and what "counted in bucket k" says of the two outputs:
\* the entry of bucket k is the one the list without them gives, with the
\* boundary scans added to the count and to the mean.
Boundary(list, st, i) == {j \in DOMAIN list : list[j].time = Sec(st[i] + windowSize)}
WithoutBoundary(list, st, i) ==
    SelectSeq(list, LAMBDA r : r.time # Sec(st[i] + windowSize))

\* the frequency entry of bucket k (list index k - 1) is at k - FreqFirstTInd
HasFreq(dev, n, k) ==
    /\ n \in DOMAIN freqOut.numScansPerDev[dev]
    /\ k - FreqFirstTInd \in DOMAIN freqOut.numScansPerDev[dev][n]
FreqOf(dev, n, k) == freqOut.numScansPerDev[dev][n][k - FreqFirstTInd]

NotCountedIn(dev, n, list, st, i, k) ==
    LET rest == WithoutBoundary(list, st, i)
        J == Within(rest, st[k], windowSize)
    IN  /\ IF J = {} THEN avgOut.avgRssiPerDev[dev][n][k] = Float(-105)
           ELSE IsMean(avgOut.avgRssiPerDev[dev][n][k], rest, J)
        /\ HasFreq(dev, n, k) => IsCount(FreqOf(dev, n, k), n, J)

CountedIn(dev, n, list, st, i, k) ==
    LET rest == WithoutBoundary(list, st, i)
        J == Within(rest, st[k], windowSize)
        B == Boundary(list, st, i)
        a == avgOut.avgRssiPerDev[dev][n][k]
        more == IF n \in FastNodes THEN Norm(Cardinality(B), 6)
                ELSE Float(Cardinality(B))
    IN  /\ k \in 1..Len(st)
        /\ a.d > 0
        /\ a.n * (Cardinality(J) + Cardinality(B))
              = (SumRssi(rest, J) + SumRssi(list, B)) * a.d
        /\ HasFreq(dev, n, k)
        /\ IsCount(FAdd(FreqOf(dev, n, k), [n |-> -more.n, d |-> more.d]), n, J)

BoundaryCases ==
    {<<dev, n, i>> \in AllAddresses(data) \X (DOMAIN data.scans)
                        \X (1..Len(avgOut.startTimes)) :
        /\ n \in NodesSeeing(data, dev)
        /\ Boundary(ScansOf(data, dev, n), avgOut.startTimes, i) # {}}

BothAggregates ==
    /\ Done("getAverageRssiPerDevicePerNode")
    /\ Done("getFrequencyPerDevicePerNode")

\* C4 as claimed: a scan at exactly startTimes[i] + windowSize is not counted
\* in bucket i and is counted in bucket i+1.
C4_BoundaryInNextBucket ==
    BothAggregates =>
        \A c \in BoundaryCases :
            LET list == ScansOf(data, c[1], c[2])
                st == avgOut.startTimes
            IN  /\ NotCountedIn(c[1], c[2], list, st, c[3], c[3])
                /\ CountedIn(c[1], c[2], list, st, c[3], c[3] + 1)

\* C4 as amended: such a scan is not counted in bucket i; it is counted in
\* bucket i+1 exactly when that bucket exists and stepSize <= windowSize.
C4_HalfOpenWindow ==
    BothAggregates =>
        \A c \in BoundaryCases :
            LET list == ScansOf(data, c[1], c[2])
                st == avgOut.startTimes
            IN  /\ NotCountedIn(c[1], c[2], list, st, c[3], c[3])
                /\ CountedIn(c[1], c[2], list, st, c[3], c[3] + 1)
                      <=> (c[3] + 1 <= Len(st) /\ stepSize <= windowSize)

\* a boundary scan of a bucket that has a frequency entry and a next bucket
C4_Witness ==
    /\ BothAggregates
    /\ \E c \in BoundaryCases :
          /\ c[3] >= 2
          /\ c[3] + 1 <= Len(avgOut.startTimes)
          /\ HasFreq(c[1], c[2], c[3])
          /\ CountedIn(c[1], c[2], ScansOf(data, c[1], c[2]),
                       avgOut.startTimes, c[3], c[3] + 1)

(***************************************************************************)
(* Properties of the bucket start times.                                   *)
(***************************************************************************)
MaxBuckets == 12

\* floor of a timestamp, and its truncation toward zero, in whole seconds
Floor(t) == CHOOSE k \in -MaxBuckets..MaxBuckets : Sec(k) <= t /\ t < Sec(k + 1)
TowardZero(t) ==
    CHOOSE k \in -MaxBuckets..MaxBuckets :
        /\ Abs(Sec(k)) <= Abs(t)
        /\ Abs(t) < Abs(Sec(k)) + TimeDen
        /\ k * t >= 0

\* st is first + i*stepSize for exactly the i = 0, 1, ... with value <= last
IsBucketSequence(st, first, last) ==
    /\ \A i \in 0..MaxBuckets :
          (first + i * stepSize <= last)
             <=> (i + 1 \in DOMAIN st /\ st[i + 1] = first + i * stepSize)
    /\ Len(st) <= MaxBuckets

EmptyIsNormal ==
    /\ Done("getFrequencyPerDevicePerNode") /\ freqOut.startTimes = <<>> =>
          /\ DOMAIN freqOut.numScansPerDev = AllAddresses(data)
          /\ \A dev \in AllAddresses(data) : freqOut.numScansPerDev[dev] = <<>>
    /\ Done("getAverageRssiPerDevicePerNode") /\ avgOut.startTimes = <<>> =>
          \A dev \in AllAddresses(data) : \A n \in NodesSeeing(data, dev) :
              avgOut.avgRssiPerDev[dev][n] = <<>>
    /\ Done("getPathPerDevice") /\ FreqStartTimes(data, windowSize, stepSize) = <<>> =>
          /\ pathOut.raised = ""
          /\ pathOut.startTimes = <<>>
          /\ \A dev \in AllAddresses(data) :
                pathOut.pathPerDevice[dev] = [x |-> <<>>, y |-> <<>>]

ReturnedStartTimes ==
    (IF Done("getFrequencyPerDevicePerNode") THEN {freqOut.startTimes} ELSE {})
    \cup (IF Done("getAverageRssiPerDevicePerNode") THEN {avgOut.startTimes} ELSE {})
    \cup (IF Done("getPathPerDevice") /\ pathOut.raised = ""
          THEN {pathOut.startTimes} ELSE {})

\* C5 as claimed: startTimes is floor(startTimestamp) + i*stepSize while that
\* is <= floor(endTimestamp) - windowSize; an empty sequence is a normal result.
C5_FloorStartTimes ==
    /\ \A st \in ReturnedStartTimes :
          IsBucketSequence(st, Floor(data.startTimestamp),
                           Floor(data.endTimestamp) - windowSize)
    /\ EmptyIsNormal

\* C5 as amended: the same with both timestamps truncated toward zero.
C5_TruncatedStartTimes ==
    /\ \A st \in ReturnedStartTimes :
          IsBucketSequence(st, TowardZero(data.startTimestamp),
                           TowardZero(data.endTimestamp) - windowSize)
    /\ EmptyIsNormal

\* negative fractional start, several buckets returned by all three functions
C5_Witness ==
    /\ called = {"getFrequencyPerDevicePerNode", "getAverageRssiPerDevicePerNode",
                 "getPathPerDevice"}
    /\ data.startTimestamp < 0
    /\ Floor(data.startTimestamp) # TowardZero(data.startTimestamp)
    /\ pathOut.raised = ""
    /\ Len(pathOut.startTimes) >= 3
    /\ avgOut.startTimes = pathOut.startTimes
    /\ freqOut.startTimes[1] = TowardZero(data.startTimestamp)

(***************************************************************************)
(* Properties of the path.                                                 *)
(***************************************************************************)
\* the average RSSI of a pair in the window starting at startTime
MeanRssi(list, startTime) ==
    LET J == Within(list, startTime, windowSize)
    IN  IF J = {} THEN Float(-105) ELSE Norm(SumRssi(list, J), Cardinality(J))

\* w[n] = (avgRssi[n][i] + 105.0)^2 over every node that has an entry for dev
ClaimedWeights(dev, startTime) ==
    [n \in NodesSeeing(data, dev) |->
        LET a == FAdd(MeanRssi(ScansOf(data, dev, n), startTime), Float(105))
        IN  FMul(a, a)]

ClaimedPosition(dev, startTime, coord) ==
    LET w == ClaimedWeights(dev, startTime)
        weightSum == FSum(w, DOMAIN w)
    IN  IF FLess(weightSum, Float(1)) THEN NaN
        ELSE FSum([n \in DOMAIN w |->
                     FMul(FDiv(w[n], weightSum), Float(nodeLocations[n][coord]))],
                  DOMAIN w)

PathReturned == Done("getPathPerDevice") /\ pathOut.raised = ""

\* C1 as claimed: for every device of the index and every bucket, one bucket
\* included, the position is NaN iff the weight sum over every node with an
\* entry for the device is < 1.0, and the weighted centroid otherwise.
C1_CentroidOverAllNodes ==
    PathReturned /\ DOMAIN nodeLocations = PathNodes =>
        /\ DOMAIN pathOut.pathPerDevice = AllAddresses(data)
        /\ \A dev \in AllAddresses(data) : \A i \in 1..Len(pathOut.startTimes) :
              /\ pathOut.pathPerDevice[dev].x[i] =
                    ClaimedPosition(dev, pathOut.startTimes[i], "x")
              /\ pathOut.pathPerDevice[dev].y[i] =
                    ClaimedPosition(dev, pathOut.startTimes[i], "y")

\* C6 as claimed: the call fails whenever a node that appears for some device
\* has no entry in nodeLocations.
C6_UnknownNodeFails ==
    Done("getPathPerDevice") =>
        ((\E dev \in AllAddresses(data) :
            \E n \in NodesSeeing(data, dev) : n \notin DOMAIN nodeLocations)
         => pathOut.raised = "KeyError")

\* C7 as claimed: every position is NaN or within the bounding box of the
\* nodes of nonzero weight, and A(0,0), B(10,0) with equal average RSSI above
\* the sentinel give (5,0).
C7_HullAndMidpoint ==
    PathReturned =>
        \A dev \in AllAddresses(data) : \A i \in 1..Len(pathOut.startTimes) :
            LET x == pathOut.pathPerDevice[dev].x[i]
                y == pathOut.pathPerDevice[dev].y[i]
                w == ClaimedWeights(dev, pathOut.startTimes[i])
                C == {n \in DOMAIN w : w[n].n # 0}
                avgA == MeanRssi(ScansOf(data, dev, "A"), pathOut.startTimes[i])
                avgB == MeanRssi(ScansOf(data, dev, "B"), pathOut.startTimes[i])
            IN  /\ \/ IsNaN(x) /\ IsNaN(y)
                   \/ /\ ~IsNaN(x) /\ ~IsNaN(y)
                      /\ \E a, b \in C \cap DOMAIN nodeLocations :
                            /\ FLeq(Float(nodeLocations[a].x), x)
                            /\ FLeq(x, Float(nodeLocations[b].x))
                      /\ \E a, b \in C \cap DOMAIN nodeLocations :
                            /\ FLeq(Float(nodeLocations[a].y), y)
                            /\ FLeq(y, Float(nodeLocations[b].y))
                /\ /\ NodesSeeing(data, dev) = {"A", "B"}
                   /\ DOMAIN nodeLocations = {"A", "B"}
                   /\ avgA = avgB
                   /\ FLess(Float(-105), avgA)
                   => x = Float(5) /\ y = Float(0)

(***************************************************************************)
(* Properties of the regrouper.                                            *)
(***************************************************************************)
Passes(t) ==
    /\ "start" \in DOMAIN kwargs => kwargs["start"] <= t
    /\ "end" \in DOMAIN kwargs => t <= kwargs["end"]

PassingTimes ==
    {t \in UNION {UNION {{datasets[k].scans[n][j].time :
                            j \in DOMAIN datasets[k].scans[n]} :
                         n \in DOMAIN datasets[k].scans} :
                  k \in DOMAIN datasets} : Passes(t)}

\* C10 as claimed: startTimestamp and endTimestamp are the minimum and the
\* maximum time over the records that pass the filter, and both are -1 iff no
\* record passes.
C10_MinMaxTimestamp ==
    Done("getTimedMeasurements") =>
        /\ PassingTimes # {} =>
              /\ timedOut.startTimestamp \in PassingTimes
              /\ timedOut.endTimestamp \in PassingTimes
              /\ \A t \in PassingTimes :
                    timedOut.startTimestamp <= t /\ t <= timedOut.endTimestamp
        /\ (timedOut.startTimestamp = Sec(-1) /\ timedOut.endTimestamp = Sec(-1))
              <=> PassingTimes = {}

====
